---------------------------- MODULE Spec2Model ----------------------------
(***************************************************************************)
(* Model of src/main.py: the YouTube converter's job submitter (Tk UI      *)
(* thread: start_download, poll_queue, set_ui_busy, update_mode_controls)  *)
(* and its download worker (download_worker with its progress_hook), which *)
(* talk through the FIFO ui_queue.                                         *)
(*                                                                         *)
(* Text is a sequence of one-character or token strings, so that strip()   *)
(* and the f-strings are computed and not assumed.  A float is an exact    *)
(* fraction <<numerator, denominator>> in lowest terms.  The source's      *)
(* ellipsis and less-or-equal characters are written "..." and "<=".       *)
(***************************************************************************)
EXTENDS Integers, Sequences, FiniteSets, TLC

(***************************************************************************)
(* Bounds of the model.                                                    *)
(***************************************************************************)
\* jobs started (start_download calls that spawn a worker) in one behaviour
MaxJobs == 2
\* progress callbacks the library delivers during one download
MaxHooks == 1

\* Python's None where a string is expected, and where a number or a
\* compound value is expected (a present number n is <<n>>)
None == "None"
Absent == <<>>

(***************************************************************************)
(* Arithmetic on fractions (Python floats).                                *)
(***************************************************************************)
Abs(x) == IF x < 0 THEN -x ELSE x

RECURSIVE Gcd(_, _)
Gcd(a, b) == IF b = 0 THEN a ELSE Gcd(b, a % b)

\* the fraction n/d (d > 0) in lowest terms
Frac(n, d) ==
    LET g == Gcd(Abs(n), d) IN <<n \div g, d \div g>>

FracLe(a, b) == a[1] * b[2] <= b[1] * a[2]
FracMin(a, b) == IF FracLe(a, b) THEN a ELSE b
FracMax(a, b) == IF FracLe(a, b) THEN b ELSE a
FracDiv(a, k) == Frac(a[1], a[2] * k)

\* |pct| in tenths, rounded to nearest, ties to even
Tenths(pct) ==
    LET n == Abs(pct[1]) * 10
        d == pct[2]
        q == n \div d
        r == n % d
    IN  IF 2 * r < d THEN q
        ELSE IF 2 * r > d THEN q + 1
        ELSE IF q % 2 = 0 THEN q ELSE q + 1

\* f"{pct:.1f}"
Fmt1(pct) ==
    LET t == Tenths(pct)
    IN  (IF pct[1] < 0 THEN "-" ELSE "") \o ToString(t \div 10) \o "."
            \o ToString(t % 10)

(***************************************************************************)
(* Text.                                                                   *)
(***************************************************************************)
Whitespace == {" "}

RECURSIVE lstrip(_)
lstrip(s) == IF s # <<>> /\ Head(s) \in Whitespace THEN lstrip(Tail(s)) ELSE s

RECURSIVE rstrip(_)
rstrip(s) ==
    IF s # <<>> /\ s[Len(s)] \in Whitespace
    THEN rstrip(SubSeq(s, 1, Len(s) - 1))
    ELSE s

\* (mutant) the text is taken as typed
strip_Missing(s) == s

\* str.strip()
strip(s) == rstrip(lstrip(s))

\* os.path.join(a, b)
path_join(a, b) == a \o <<"/">> \o b

(***************************************************************************)
(* Paths / config (module level).                                          *)
(***************************************************************************)
BASE_DIR == <<"BASE_DIR">>

FFMPEG_BIN_DIR ==
    path_join(path_join(BASE_DIR, <<"ffmpeg-2025-01-30-git-1911a6ec26-full_build">>),
              <<"bin">>)

\* the option menus' values and the StringVars' initial values
Mp3Values == {"128", "192", "256", "320"}
Mp4Values == {"best", "2160", "1440", "1080", "720", "480", "360"}

VARIABLES
    \* --- environment ---
    osName,        \* os.name
    binIsDir,      \* os.path.isdir(FFMPEG_BIN_DIR)
    binFiles,      \* names of the regular files in FFMPEG_BIN_DIR
    fsDirs,        \* output directories that exist
    \* --- shared channel ---
    ui_queue,      \* queue.Queue: events in FIFO order
    \* --- worker threads ---
    workers,       \* one record per download_worker thread, by job number
    \* --- UI thread ---
    link_entry, folder_entry,          \* entry texts
    mode_var, mp3_quality_var, mp4_quality_var,
    state,         \* widget -> "normal" | "disabled"
    mp3_label, mp4_label,
    status_label, progress_bar,
    timers,        \* pending root.after(100, poll_queue) callbacks
    uiPc,          \* "idle" | "poll": the UI thread is inside poll_queue's loop
    dialog,        \* the modal messagebox on screen, or Absent
    \* --- history (not program state) ---
    handled        \* <<job, type>> of the terminal events poll_queue has dequeued

vars == <<osName, binIsDir, binFiles, fsDirs, ui_queue, workers,
          link_entry, folder_entry, mode_var, mp3_quality_var, mp4_quality_var,
          state, mp3_label, mp4_label, status_label, progress_bar, timers,
          uiPc, dialog, handled>>

(***************************************************************************)
(* _bin_exists, _ffmpeg_bundle_ok                                          *)
(***************************************************************************)
_bin_exists(exe_name) == binIsDir /\ exe_name \in binFiles

\* (mutant) one of the two executables is enough
_ffmpeg_bundle_ok_Either ==
    LET win == osName = "nt"
        ffmpeg_exe == IF win THEN "ffmpeg.exe" ELSE "ffmpeg"
        ffprobe_exe == IF win THEN "ffprobe.exe" ELSE "ffprobe"
    IN  _bin_exists(ffmpeg_exe) \/ _bin_exists(ffprobe_exe)

_ffmpeg_bundle_ok ==
    LET win == osName = "nt"
        ffmpeg_exe == IF win THEN "ffmpeg.exe" ELSE "ffmpeg"
        ffprobe_exe == IF win THEN "ffprobe.exe" ELSE "ffprobe"
    IN  _bin_exists(ffmpeg_exe) /\ _bin_exists(ffprobe_exe)

(***************************************************************************)
(* Job and events.                                                         *)
(***************************************************************************)
Job(url, out_dir, mode, mp3_kbps, mp4_height) ==
    [url |-> url, out_dir |-> out_dir, mode |-> mode,
     mp3_kbps |-> mp3_kbps, mp4_height |-> mp4_height]

\* (mutant) the channel is a LifoQueue
put_Lifo(q, type, payload, w) ==
    <<[type |-> type, payload |-> payload, job |-> w]>> \o q

\* an event as put on ui_queue; job is the number of the worker that put it
\* (bookkeeping of the model: the tuple in the code has no such field)
Event(type, payload, w) == [type |-> type, payload |-> payload, job |-> w]

put(q, type, payload, w) == Append(q, Event(type, payload, w))

Terminal == {"done", "error"}

(***************************************************************************)
(* download_worker.  A worker's pc is the statement it is about to run:    *)
(*   "mkdir"    _safe_mkdir(job.out_dir)                                   *)
(*   "config"   ffmpeg_ok, ydl_opts, the ffmpeg_ok branch                  *)
(*   "mode"     the job.mode branch, then entering ydl.download            *)
(*   "running"  inside ydl.download([job.url])                             *)
(*   "hook2"    inside progress_hook, between its two puts                 *)
(*   "done"     ui_q.put(("done", ...))                                    *)
(*   "except"   the except clause's ui_q.put(("error", ...))               *)
(*   "finished" the function has returned                                  *)
(*   "raised"   the function has ended by raising                          *)
(***************************************************************************)
\* the function has returned: its frame (job, ydl_opts) is gone; exc and
\* called stay as the record of how the run went
Returned(wr) ==
    [wr EXCEPT !.pc = "finished", !.job = Absent, !.ydl_opts = Absent,
               !.hooks = 0, !.pend = Absent]

NewWorker(job) ==
    [pc |-> "mkdir", job |-> job, ydl_opts |-> Absent, exc |-> None,
     hooks |-> 0, pend |-> Absent, called |-> FALSE]

\* dict.update
update(d, e) == e @@ d

\* (mutant) the except clause names the library's error only
Catches_DownloadErrorOnly(e) == e = "DownloadError"

\* except Exception: every exception the body raises is an Exception
Exceptions == {"OSError", "ValueError", "DownloadError"}
Catches(e) == e \in Exceptions

\* the worker record after statement raises e inside the try block
Raise(wr, e) ==
    IF Catches(e)
    THEN [wr EXCEPT !.pc = "except", !.exc = e]
    ELSE [wr EXCEPT !.pc = "raised", !.exc = e]

WorkerFrame == UNCHANGED <<osName, binIsDir, binFiles, link_entry, folder_entry,
                           mode_var, mp3_quality_var, mp4_quality_var, state,
                           mp3_label, mp4_label, status_label, progress_bar,
                           timers, uiPc, dialog, handled>>

\* (mutant) os.makedirs(path) without exist_ok: an existing directory raises
\* FileExistsError, an OSError
_safe_mkdir_NoExistOk(w) ==
    /\ workers[w].pc = "mkdir"
    /\ LET path == workers[w].job.out_dir IN
        \/ /\ path \notin fsDirs
           /\ fsDirs' = fsDirs \cup {path}
           /\ workers' = [workers EXCEPT ![w].pc = "config"]
        \/ /\ fsDirs' = fsDirs
           /\ workers' = [workers EXCEPT ![w] = Raise(@, "OSError")]
    /\ UNCHANGED ui_queue
    /\ WorkerFrame

\* _safe_mkdir(job.out_dir): os.makedirs(path, exist_ok=True) creates the
\* directory, leaves an existing one alone, or raises OSError when it cannot
\* create it
_safe_mkdir(w) ==
    /\ workers[w].pc = "mkdir"
    /\ LET path == workers[w].job.out_dir IN
        \/ /\ fsDirs' = fsDirs \cup {path}
           /\ workers' = [workers EXCEPT ![w].pc = "config"]
        \/ /\ path \notin fsDirs
           /\ fsDirs' = fsDirs
           /\ workers' = [workers EXCEPT ![w] = Raise(@, "OSError")]
    /\ UNCHANGED ui_queue
    /\ WorkerFrame

BaseOpts(job) ==
    [outtmpl |-> path_join(job.out_dir, <<"%(title).200s [%(id)s].%(ext)s">>),
     noplaylist |-> TRUE,
     restrictfilenames |-> TRUE,
     windowsfilenames |-> TRUE,
     progress_hooks |-> <<"progress_hook">>,
     retries |-> 5,
     fragment_retries |-> 5,
     consoletitle |-> FALSE,
     nocheckcertificate |-> FALSE]

FallbackStatus == <<"Bundled FFmpeg not found. Using system FFmpeg (PATH)...">>

\* lines 59-97: ffmpeg_ok, ydl_opts and the ffmpeg_ok branch
ConfigStep(w) ==
    /\ workers[w].pc = "config"
    /\ LET ffmpeg_ok == _ffmpeg_bundle_ok
           opts == BaseOpts(workers[w].job)
       IN  IF ffmpeg_ok
           THEN /\ workers' = [workers EXCEPT
                       ![w].pc = "mode",
                       ![w].ydl_opts = update(opts, [ffmpeg_location |-> FFMPEG_BIN_DIR])]
                /\ UNCHANGED ui_queue
           ELSE /\ workers' = [workers EXCEPT ![w].pc = "mode", ![w].ydl_opts = opts]
                /\ ui_queue' = put(ui_queue, "status", FallbackStatus, w)
    /\ UNCHANGED fsDirs
    /\ WorkerFrame

\* AudioOpts with the bitrate written into the options instead of taken
\* from the Job
AudioOpts_FixedQuality(job) ==
    [format |-> <<"bestaudio", "/", "best">>,
     postprocessors |->
        <<[key |-> "FFmpegExtractAudio",
           preferredcodec |-> "mp3",
           preferredquality |-> "192"]>>]

AudioOpts(job) ==
    [format |-> <<"bestaudio", "/", "best">>,
     postprocessors |-> <<[key |-> "FFmpegExtractAudio",
                           preferredcodec |-> "mp3",
                           preferredquality |-> job.mp3_kbps]>>]

\* VideoFormat with the height limit left off the preferred MP4+M4A pair
VideoFormat_UnboundedFirst(mp4_height) ==
    IF mp4_height = "best"
    THEN <<"bestvideo", "[ext=mp4]", "+", "bestaudio", "[ext=m4a]",
           "/", "best", "[ext=mp4]", "/", "best">>
    ELSE LET h == mp4_height IN
         <<"bestvideo", "[ext=mp4]", "+", "bestaudio", "[ext=m4a]",
           "/", "bestvideo", "[height<=", h, "]", "+", "bestaudio",
           "/", "best", "[height<=", h, "]", "/", "best">>

\* VideoFormat built for a height as the chain of "best" with the height
\* limit added to each alternative and "best" appended
VideoFormat_SameChain(mp4_height) ==
    IF mp4_height = "best"
    THEN <<"bestvideo", "[ext=mp4]", "+", "bestaudio", "[ext=m4a]",
           "/", "best", "[ext=mp4]", "/", "best">>
    ELSE LET h == mp4_height IN
         <<"bestvideo", "[ext=mp4]", "[height<=", h, "]", "+", "bestaudio", "[ext=m4a]",
           "/", "best", "[ext=mp4]", "[height<=", h, "]",
           "/", "best", "[height<=", h, "]", "/", "best">>

\* the format expression, as a sequence of tokens
VideoFormat(mp4_height) ==
    IF mp4_height = "best"
    THEN <<"bestvideo", "[ext=mp4]", "+", "bestaudio", "[ext=m4a]",
           "/", "best", "[ext=mp4]",
           "/", "best">>
    ELSE LET h == mp4_height IN
         <<"bestvideo", "[ext=mp4]", "[height<=", h, "]", "+", "bestaudio", "[ext=m4a]",
           "/", "bestvideo", "[height<=", h, "]", "+", "bestaudio",
           "/", "best", "[height<=", h, "]",
           "/", "best">>

VideoLabel(mp4_height) ==
    IF mp4_height = "best"
    THEN <<"Downloading MP4 (best available)...">>
    ELSE <<"Downloading MP4 (<=", mp4_height, "p)...">>

VideoOpts(job) ==
    [format |-> VideoFormat(job.mp4_height),
     merge_output_format |-> "mp4",
     postprocessors |-> <<[key |-> "FFmpegVideoConvertor", preferedformat |-> "mp4"]>>]

\* (mutant) no else branch: an unknown mode falls through to the library call
ModeStep_NoElse(w) ==
    /\ workers[w].pc = "mode"
    /\ LET job == workers[w].job IN
       IF job.mode = "audio"
       THEN /\ workers' = [workers EXCEPT
                   ![w].pc = "running", ![w].called = TRUE,
                   ![w].ydl_opts = update(@, AudioOpts(job))]
            /\ UNCHANGED ui_queue
       ELSE IF job.mode = "video"
       THEN /\ ui_queue' = put(ui_queue, "status", VideoLabel(job.mp4_height), w)
            /\ workers' = [workers EXCEPT
                   ![w].pc = "running", ![w].called = TRUE,
                   ![w].ydl_opts = update(@, VideoOpts(job))]
       ELSE /\ workers' = [workers EXCEPT ![w].pc = "running", ![w].called = TRUE]
            /\ UNCHANGED ui_queue
    /\ UNCHANGED fsDirs
    /\ WorkerFrame

\* lines 99-150: the job.mode branch; on audio or video the worker goes on
\* into YoutubeDL(ydl_opts).download
ModeStep(w) ==
    /\ workers[w].pc = "mode"
    /\ LET job == workers[w].job IN
       IF job.mode = "audio"
       THEN /\ workers' = [workers EXCEPT
                   ![w].pc = "running", ![w].called = TRUE,
                   ![w].ydl_opts = update(@, AudioOpts(job))]
            /\ UNCHANGED ui_queue
       ELSE IF job.mode = "video"
       THEN /\ ui_queue' = put(ui_queue, "status", VideoLabel(job.mp4_height), w)
            /\ workers' = [workers EXCEPT
                   ![w].pc = "running", ![w].called = TRUE,
                   ![w].ydl_opts = update(@, VideoOpts(job))]
       ELSE /\ workers' = [workers EXCEPT ![w] = Raise(@, "ValueError")]
            /\ UNCHANGED ui_queue
    /\ UNCHANGED fsDirs
    /\ WorkerFrame

(***************************************************************************)
(* progress_hook(d).  d maps the keys the hook reads; None is a missing    *)
(* key.                                                                    *)
(***************************************************************************)
HookDicts ==
    [status : {"downloading", "finished", "error"},
     total_bytes : {Absent, <<0>>, <<2>>},
     total_bytes_estimate : {Absent, <<2>>},
     downloaded_bytes : {Absent, <<-1>>, <<3>>}]

Truthy(x) == x # Absent /\ x[1] # 0
\* Python's  a or b
Or(a, b) == IF Truthy(a) THEN a ELSE b
\* d.get(key, default)
Get(v, default) == IF v = Absent THEN default ELSE v[1]

\* (downloaded / total) * 100.0
HookPct(d) ==
    Frac(Get(d.downloaded_bytes, 0) * 100,
         Or(d.total_bytes, d.total_bytes_estimate)[1])

\* (mutant) the two puts of a hook call in the other order
HookEvents_StatusFirst(d) ==
    IF d.status = "downloading"
    THEN LET total == Or(d.total_bytes, d.total_bytes_estimate) IN
         IF Truthy(total) /\ total[1] > 0
         THEN <<<<"status", <<"Downloading... ", Fmt1(HookPct(d)), "%">>>>,
                <<"progress", HookPct(d)>>>>
         ELSE <<<<"status", <<"Downloading...">>>>>>
    ELSE IF d.status = "finished"
    THEN <<<<"status", <<"Download finished. Processing with FFmpeg...">>>>,
           <<"progress", Frac(100, 1)>>>>
    ELSE <<>>

\* the events one call of progress_hook(d) puts, in order
HookEvents(d) ==
    IF d.status = "downloading"
    THEN LET total == Or(d.total_bytes, d.total_bytes_estimate) IN
         IF Truthy(total) /\ total[1] > 0
         THEN <<<<"progress", HookPct(d)>>,
                <<"status", <<"Downloading... ", Fmt1(HookPct(d)), "%">>>>>>
         ELSE <<<<"status", <<"Downloading...">>>>>>
    ELSE IF d.status = "finished"
    THEN <<<<"progress", Frac(100, 1)>>,
           <<"status", <<"Download finished. Processing with FFmpeg...">>>>>>
    ELSE <<>>

\* the library calls progress_hook(d): the hook's first put, if any
progress_hook(w) ==
    /\ workers[w].pc = "running"
    /\ workers[w].hooks < MaxHooks
    /\ \E d \in HookDicts :
         LET evs == HookEvents(d) IN
         /\ ui_queue' = IF evs = <<>> THEN ui_queue
                        ELSE put(ui_queue, evs[1][1], evs[1][2], w)
         /\ workers' = [workers EXCEPT
                ![w].hooks = @ + 1,
                ![w].pc = IF Len(evs) = 2 THEN "hook2" ELSE "running",
                ![w].pend = IF Len(evs) = 2 THEN evs[2] ELSE Absent]
    /\ UNCHANGED fsDirs
    /\ WorkerFrame

\* the hook's second put
HookSecondPut(w) ==
    /\ workers[w].pc = "hook2"
    /\ ui_queue' = put(ui_queue, workers[w].pend[1], workers[w].pend[2], w)
    /\ workers' = [workers EXCEPT ![w].pc = "running", ![w].pend = Absent]
    /\ UNCHANGED fsDirs
    /\ WorkerFrame

\* ydl.download([job.url]) returns
LibraryReturns(w) ==
    /\ workers[w].pc = "running"
    /\ workers' = [workers EXCEPT ![w].pc = "done"]
    /\ UNCHANGED <<fsDirs, ui_queue>>
    /\ WorkerFrame

\* (mutant) the failure of the library call is swallowed where it happens
\* and the worker goes on to the statement after the with block
LibraryRaises_Swallowed(w) ==
    /\ workers[w].pc = "running"
    /\ workers' = [workers EXCEPT ![w].pc = "done", ![w].exc = "DownloadError"]
    /\ UNCHANGED <<fsDirs, ui_queue>>
    /\ WorkerFrame

\* YoutubeDL(ydl_opts) / ydl.download([job.url]) raises
LibraryRaises(w) ==
    /\ workers[w].pc = "running"
    /\ workers' = [workers EXCEPT ![w] = Raise(@, "DownloadError")]
    /\ UNCHANGED <<fsDirs, ui_queue>>
    /\ WorkerFrame

DoneMessage(job) == <<"Complete!\nSaved in:\n">> \o job.out_dir
ErrorMessage(e) == <<"An error occurred:\n", e>>

\* (mutant) the worker also writes the status label itself
PutDone_SetsLabel(w) ==
    /\ workers[w].pc = "done"
    /\ ui_queue' = put(ui_queue, "done", DoneMessage(workers[w].job), w)
    /\ workers' = [workers EXCEPT ![w] = Returned(@)]
    /\ status_label' = <<"Done.">>
    /\ UNCHANGED <<osName, binIsDir, binFiles, fsDirs, link_entry, folder_entry,
                   mode_var, mp3_quality_var, mp4_quality_var, state, mp3_label,
                   mp4_label, progress_bar, timers, uiPc, dialog, handled>>

\* line 153
PutDone(w) ==
    /\ workers[w].pc = "done"
    /\ ui_queue' = put(ui_queue, "done", DoneMessage(workers[w].job), w)
    /\ workers' = [workers EXCEPT ![w] = Returned(@)]
    /\ UNCHANGED fsDirs
    /\ WorkerFrame

\* (mutant) the done put sits after the try statement, so it follows the
\* except clause as well
PutError_ThenDone(w) ==
    /\ workers[w].pc = "except"
    /\ ui_queue' = put(ui_queue, "error", ErrorMessage(workers[w].exc), w)
    /\ workers' = [workers EXCEPT ![w].pc = "done"]
    /\ UNCHANGED fsDirs
    /\ WorkerFrame

\* lines 155-156
PutError(w) ==
    /\ workers[w].pc = "except"
    /\ ui_queue' = put(ui_queue, "error", ErrorMessage(workers[w].exc), w)
    /\ workers' = [workers EXCEPT ![w] = Returned(@)]
    /\ UNCHANGED fsDirs
    /\ WorkerFrame

download_worker(w) ==
    \/ _safe_mkdir(w)
    \/ ConfigStep(w)
    \/ ModeStep(w)
    \/ progress_hook(w)
    \/ HookSecondPut(w)
    \/ LibraryReturns(w)
    \/ LibraryRaises(w)
    \/ PutDone(w)
    \/ PutError(w)

(***************************************************************************)
(* UI helpers.                                                             *)
(***************************************************************************)
Widgets == {"download_button", "browse_btn", "link_entry", "folder_entry",
            "audio_radio", "video_radio", "mp3_menu", "mp4_menu"}

\* (mutant) the download button is left out of the widgets configured
set_ui_busy_NotButton(is_busy) ==
    [x \in Widgets |-> IF x = "download_button" THEN "normal"
                       ELSE IF is_busy THEN "disabled" ELSE "normal"]

\* set_ui_busy(is_busy): the widgets' states after the call
set_ui_busy(is_busy) ==
    [x \in Widgets |-> IF is_busy THEN "disabled" ELSE "normal"]

\* update_mode_controls(): the widget states and label texts after the call,
\* from the widget states st before it
update_mode_controls(st, mode) ==
    IF mode = "audio"
    THEN [state |-> [st EXCEPT !["mp3_menu"] = "normal", !["mp4_menu"] = "disabled"],
          mp4_label |-> <<"MP4 Quality (disabled)">>,
          mp3_label |-> <<"MP3 Quality (kbps)">>]
    ELSE [state |-> [st EXCEPT !["mp3_menu"] = "disabled", !["mp4_menu"] = "normal"],
          mp4_label |-> <<"MP4 Quality (max height)">>,
          mp3_label |-> <<"MP3 Quality (disabled)">>]

\* what the user can type or pick
LinkTexts == {<<" ">>, <<" ", "u">>}
FolderTexts == {<<>>, <<"d", " ">>}
\* <<menu, variable's new value>>
QualityChoices == {<<"mp4_menu", "best">>}

\* the UI thread is in its main loop and no modal dialog has the grab
UserCanAct == uiPc = "idle" /\ dialog = Absent

UIFrame == UNCHANGED <<osName, binIsDir, binFiles, fsDirs>>

\* the user edits the link entry
TypeLink ==
    /\ UserCanAct
    /\ state["link_entry"] = "normal"
    /\ \E v \in LinkTexts : link_entry' = v
    /\ UNCHANGED <<ui_queue, workers, folder_entry, mode_var, mp3_quality_var,
                   mp4_quality_var, state, mp3_label, mp4_label, status_label,
                   progress_bar, timers, uiPc, dialog, handled>>
    /\ UIFrame

\* the user edits the folder entry
TypeFolder ==
    /\ UserCanAct
    /\ state["folder_entry"] = "normal"
    /\ \E v \in FolderTexts : folder_entry' = v
    /\ UNCHANGED <<ui_queue, workers, link_entry, mode_var, mp3_quality_var,
                   mp4_quality_var, state, mp3_label, mp4_label, status_label,
                   progress_bar, timers, uiPc, dialog, handled>>
    /\ UIFrame

\* a radio button is clicked: it sets mode_var and runs update_mode_controls
SelectMode ==
    /\ UserCanAct
    /\ \E m \in {"audio", "video"} :
         /\ state[IF m = "audio" THEN "audio_radio" ELSE "video_radio"] = "normal"
         /\ mode_var' = m
         /\ LET r == update_mode_controls(state, m) IN
            /\ state' = r.state
            /\ mp3_label' = r.mp3_label
            /\ mp4_label' = r.mp4_label
    /\ UNCHANGED <<ui_queue, workers, link_entry, folder_entry, mp3_quality_var,
                   mp4_quality_var, status_label, progress_bar, timers, uiPc,
                   dialog, handled>>
    /\ UIFrame

\* a value is picked in an enabled option menu
SelectQuality ==
    /\ UserCanAct
    /\ \E c \in QualityChoices :
         /\ state[c[1]] = "normal"
         /\ mp3_quality_var' = IF c[1] = "mp3_menu" THEN c[2] ELSE mp3_quality_var
         /\ mp4_quality_var' = IF c[1] = "mp4_menu" THEN c[2] ELSE mp4_quality_var
    /\ UNCHANGED <<ui_queue, workers, link_entry, folder_entry, mode_var, state,
                   mp3_label, mp4_label, status_label, progress_bar, timers, uiPc,
                   dialog, handled>>
    /\ UIFrame

\* (mutant) no timer is scheduled
after_poll_queue_Missing(t) == t

\* (mutant) every scheduling call arms two timers
after_poll_queue_Twice(t) == t + 2

\* root.after(100, poll_queue) with t timers pending: one more is pending
after_poll_queue(t) == t + 1

\* start_download(): the Download button's command
start_download ==
    /\ UserCanAct
    /\ state["download_button"] = "normal"
    /\ LET url == strip(link_entry) IN
       IF url = <<>>
       THEN /\ dialog' = <<"showerror", "Error", <<"Please enter a YouTube video link.">>>>
            /\ UNCHANGED <<ui_queue, workers, state, status_label, progress_bar,
                           timers>>
       ELSE LET out_dir == IF strip(folder_entry) # <<>>
                           THEN strip(folder_entry)
                           ELSE path_join(BASE_DIR, <<"downloads">>)
                job == Job(url, out_dir, mode_var, mp3_quality_var, mp4_quality_var)
            IN  /\ Len(workers) < MaxJobs
                /\ progress_bar' = Frac(0, 1)
                /\ status_label' = <<"Starting...">>
                /\ state' = set_ui_busy(TRUE)
                /\ workers' = Append(workers, NewWorker(job))
                /\ timers' = after_poll_queue(timers)
                /\ UNCHANGED <<ui_queue, dialog>>
    /\ UNCHANGED <<link_entry, folder_entry, mode_var, mp3_quality_var,
                   mp4_quality_var, mp3_label, mp4_label, uiPc, handled>>
    /\ UIFrame

\* (mutant) only the lower clamp
Clamp_NoUpper(pct) == FracMax(Frac(0, 1), FracDiv(pct, 100))

\* progress_bar.set(max(0.0, min(1.0, pct / 100.0)))
Clamp(pct) == FracMax(Frac(0, 1), FracMin(Frac(1, 1), FracDiv(pct, 100)))

\* one turn of poll_queue's while loop, with t timers pending
PollIteration(t) ==
    IF ui_queue = <<>>
    THEN \* queue.Empty: root.after(100, poll_queue)
         /\ timers' = after_poll_queue(t)
         /\ uiPc' = "idle"
         /\ UNCHANGED <<ui_queue, state, status_label, progress_bar, dialog, handled>>
    ELSE LET msg == Head(ui_queue) IN
         /\ ui_queue' = Tail(ui_queue)
         /\ timers' = t
         /\ IF msg.type = "status"
            THEN /\ status_label' = msg.payload
                 /\ uiPc' = "poll"
                 /\ UNCHANGED <<state, progress_bar, dialog, handled>>
            ELSE IF msg.type = "progress"
            THEN /\ progress_bar' = Clamp(msg.payload)
                 /\ uiPc' = "poll"
                 /\ UNCHANGED <<state, status_label, dialog, handled>>
            ELSE IF msg.type = "done"
            THEN /\ status_label' = <<"Done.">>
                 /\ state' = set_ui_busy(FALSE)
                 /\ dialog' = <<"showinfo", "Success", msg.payload>>
                 /\ uiPc' = "idle"
                 /\ handled' = Append(handled, <<msg.job, msg.type>>)
                 /\ UNCHANGED progress_bar
            ELSE IF msg.type = "error"
            THEN /\ status_label' = <<"Error.">>
                 /\ state' = set_ui_busy(FALSE)
                 /\ dialog' = <<"showerror", "Error", msg.payload>>
                 /\ uiPc' = "idle"
                 /\ handled' = Append(handled, <<msg.job, msg.type>>)
                 /\ UNCHANGED progress_bar
            ELSE /\ uiPc' = "poll"
                 /\ UNCHANGED <<state, status_label, progress_bar, dialog, handled>>

PollFrame == UNCHANGED <<osName, binIsDir, binFiles, fsDirs, workers, link_entry,
                         folder_entry, mode_var, mp3_quality_var, mp4_quality_var,
                         mp3_label, mp4_label>>

\* (mutant) the first read of the tick is ui_queue.get(), which waits for an
\* event
poll_queue_Blocking ==
    /\ uiPc = "idle"
    /\ timers > 0
    /\ ui_queue # <<>>
    /\ PollIteration(timers - 1)
    /\ PollFrame

\* a pending timer fires: poll_queue() starts and makes its first get_nowait
poll_queue ==
    /\ uiPc = "idle"
    /\ timers > 0
    /\ PollIteration(timers - 1)
    /\ PollFrame

\* poll_queue's loop goes round again
PollLoop ==
    /\ uiPc = "poll"
    /\ PollIteration(timers)
    /\ PollFrame

\* (mutant) closing the messagebox puts the status label back to "Idle."
DismissDialog_ResetsStatus ==
    /\ dialog # Absent
    /\ dialog' = Absent
    /\ status_label' = <<"Idle.">>
    /\ UNCHANGED <<ui_queue, workers, link_entry, folder_entry, mode_var,
                   mp3_quality_var, mp4_quality_var, state, mp3_label, mp4_label,
                   progress_bar, timers, uiPc, handled>>
    /\ UIFrame

\* the user closes the messagebox
DismissDialog ==
    /\ dialog # Absent
    /\ dialog' = Absent
    /\ UNCHANGED <<ui_queue, workers, link_entry, folder_entry, mode_var,
                   mp3_quality_var, mp4_quality_var, state, mp3_label, mp4_label,
                   status_label, progress_bar, timers, uiPc, handled>>
    /\ UIFrame

(***************************************************************************)
(* The program: app setup (lines 251-316), then the UI thread's handlers   *)
(* and the worker threads.                                                 *)
(***************************************************************************)
BinNames == {"ffmpeg", "ffprobe", "ffmpeg.exe", "ffprobe.exe"}

InitUI ==
    /\ ui_queue = <<>>
    /\ link_entry = <<>>
    /\ folder_entry = <<>>
    /\ mode_var = "audio"
    /\ mp3_quality_var = "192"
    /\ mp4_quality_var = "1080"
    /\ LET r == update_mode_controls([x \in Widgets |-> "normal"], "audio") IN
       /\ state = r.state
       /\ mp3_label = r.mp3_label
       /\ mp4_label = r.mp4_label
    /\ status_label = <<"Idle.">>
    /\ progress_bar = Frac(0, 1)
    /\ timers = 0
    /\ uiPc = "idle"
    /\ dialog = Absent
    /\ handled = <<>>

Init ==
    /\ osName = "posix"
    /\ binIsDir = TRUE
    /\ binFiles \in {{"ffmpeg"}, {"ffmpeg", "ffprobe"}}
    /\ fsDirs = {}
    /\ workers = <<>>
    /\ InitUI

Next ==
    \/ TypeLink
    \/ TypeFolder
    \/ SelectMode
    \/ SelectQuality
    \/ start_download
    \/ poll_queue
    \/ PollLoop
    \/ DismissDialog
    \/ \E w \in 1..Len(workers) : download_worker(w)

Spec == Init /\ [][Next]_vars

\* The program with a user who leaves the folder and the quality menus alone,
\* under the scheduling Tk gives: the main loop runs every due timer callback
\* and poll_queue's loop runs on.
LiveNext ==
    \/ TypeLink
    \/ SelectMode
    \/ start_download
    \/ poll_queue
    \/ PollLoop
    \/ DismissDialog
    \/ \E w \in 1..Len(workers) : download_worker(w)

LiveSpec == Init /\ [][LiveNext]_vars /\ WF_vars(poll_queue) /\ WF_vars(PollLoop)

(***************************************************************************)
(* download_worker(job, ui_q) called on its own, with any Job, in any      *)
(* state of the bundled-binary directory; nothing reads the queue.         *)
(***************************************************************************)
WorkerJobs ==
    {Job(<<"u">>, <<"d">>, "audio", k, "1080") : k \in Mp3Values}
        \cup {Job(<<"u">>, <<"d">>, "video", "192", h) : h \in Mp4Values}
        \cup {Job(<<"u">>, <<"d">>, m, "192", "1080") : m \in {"", "gif"}}
        \cup {Job(<<"u">>, path_join(BASE_DIR, <<"downloads">>), "audio", "320", "1080")}

WorkerInit ==
    /\ osName \in {"nt", "posix"}
    /\ binIsDir \in BOOLEAN
    /\ binFiles \in IF binIsDir THEN SUBSET BinNames ELSE {{}}
    /\ \E job \in WorkerJobs :
         /\ workers = <<NewWorker(job)>>
         /\ fsDirs \in {{}, {job.out_dir}}
    /\ InitUI

WorkerNext == \E w \in 1..Len(workers) : download_worker(w)

WorkerSpec == WorkerInit /\ [][WorkerNext]_vars

(***************************************************************************)
(* What the claims speak of.                                               *)
(***************************************************************************)
JobIds == 1..Len(workers)

\* the places of worker w's events of the given types on the channel
EventsOf(w, types) ==
    {i \in DOMAIN ui_queue : ui_queue[i].job = w /\ ui_queue[i].type \in types}

AllTypes == {"status", "progress", "done", "error"}

\* download_worker(w) has ended, by returning or by raising
Ended(w) == workers[w].pc \in {"finished", "raised"}

\* the worker is past the statement that builds ydl_opts and still running
Configured(w) == workers[w].pc \in {"mode", "running", "hook2", "done"}

(***************************************************************************)
(* Claims about download_worker on its own (WorkerSpec): nothing reads the *)
(* channel there, so ui_queue is everything the worker has put.            *)
(***************************************************************************)

\* C1: a run of download_worker puts at most one terminal event (done or
\* error, never both) while it runs and exactly one by the time it has
\* ended, and no event of the worker follows its terminal event.
C1_OneTerminalEvent ==
    \A w \in JobIds :
        LET term == EventsOf(w, Terminal) IN
        /\ Cardinality(term) <= 1
        /\ Ended(w) => Cardinality(term) = 1
        /\ \A i \in term : \A j \in EventsOf(w, AllTypes) : j <= i

\* C1 witness: the worker has returned after a failed download whose
\* progress callback put events before the error event.
C1_Witness ==
    /\ Len(workers) = 1
    /\ workers[1].pc = "finished"
    /\ workers[1].exc = "DownloadError"
    /\ Len(ui_queue) >= 3
    /\ ui_queue[Len(ui_queue)].type = "error"
    /\ EventsOf(1, {"progress"}) # {}

\* C5: the worker never ends by raising; once an exception was raised in it,
\* it puts no done event, no event before the except clause runs its put,
\* and exactly one error event, carrying the exception's message, by the
\* time it has returned.
C5_ErrorsBecomeEvents ==
    \A w \in JobIds :
        /\ workers[w].pc # "raised"
        /\ workers[w].exc # None =>
              /\ EventsOf(w, {"done"}) = {}
              /\ workers[w].pc = "except" => EventsOf(w, {"error"}) = {}
              /\ workers[w].pc = "finished" =>
                    /\ Cardinality(EventsOf(w, {"error"})) = 1
                    /\ \A i \in EventsOf(w, {"error"}) :
                          ui_queue[i].payload = ErrorMessage(workers[w].exc)

\* C5 witness: directory creation failed and the worker has returned, its
\* single event being the error event.
C5_Witness ==
    /\ Len(workers) = 1
    /\ workers[1].pc = "finished"
    /\ workers[1].exc = "OSError"
    /\ Len(ui_queue) = 1
    /\ ui_queue[1].type = "error"

\* the two executables _ffmpeg_bundle_ok looks for on this platform
RequiredExes ==
    IF osName = "nt" THEN {"ffmpeg.exe", "ffprobe.exe"} ELSE {"ffmpeg", "ffprobe"}

BundleComplete == binIsDir /\ RequiredExes \subseteq binFiles

\* the places of worker w's fallback status events
FallbackEvents(w) ==
    {i \in EventsOf(w, {"status"}) : ui_queue[i].payload = FallbackStatus}

\* C9: with an executable missing from the bundled-binary directory, the
\* configuration the worker built has no ffmpeg_location, the worker has put
\* exactly one fallback status event and raised nothing, and a worker inside
\* the library call got there with them; with both executables present,
\* ffmpeg_location is the bundled directory and no fallback event is put.
C9_BundleFallback ==
    \A w \in JobIds :
        /\ Configured(w) /\ ~BundleComplete =>
              /\ "ffmpeg_location" \notin DOMAIN workers[w].ydl_opts
              /\ Cardinality(FallbackEvents(w)) = 1
              /\ workers[w].exc = None
              /\ EventsOf(w, {"error"}) = {}
        /\ Configured(w) /\ BundleComplete =>
              /\ "ffmpeg_location" \in DOMAIN workers[w].ydl_opts
              /\ workers[w].ydl_opts["ffmpeg_location"] = FFMPEG_BIN_DIR
              /\ FallbackEvents(w) = {}
        /\ workers[w].pc \in {"mkdir", "config"} => FallbackEvents(w) = {}

\* C9 witness: ffprobe is missing beside ffmpeg, and the worker is inside the
\* library call after its fallback status event.
C9_Witness ==
    /\ Len(workers) = 1
    /\ osName = "posix"
    /\ binFiles = {"ffmpeg"}
    /\ workers[1].pc = "running"
    /\ workers[1].called
    /\ FallbackEvents(1) # {}

ValidModes == {"audio", "video"}

\* C10: a worker whose Job has another mode than audio and video never
\* enters the library call and puts no done event; past the mode branch it
\* is in the except clause with the invalid-mode ValueError (when the output
\* directory could not be created, with that OSError instead), and a worker
\* that raised that error never called the library and returns having put a
\* single terminal event, the error event with that error's message.
C10_InvalidMode ==
    \A w \in JobIds :
        /\ workers[w].job # Absent /\ workers[w].job.mode \notin ValidModes =>
              /\ ~workers[w].called
              /\ workers[w].pc \in {"mkdir", "config", "mode", "except"}
              /\ EventsOf(w, {"done"}) = {}
              /\ workers[w].pc = "except" =>
                    /\ workers[w].exc \in {"OSError", "ValueError"}
                    /\ workers[w].job.out_dir \in fsDirs => workers[w].exc = "ValueError"
        /\ workers[w].exc = "ValueError" =>
              /\ ~workers[w].called
              /\ workers[w].pc \in {"except", "finished"}
              /\ workers[w].pc = "except" => workers[w].job.mode \notin ValidModes
              /\ EventsOf(w, {"done"}) = {}
              /\ workers[w].pc = "finished" =>
                    /\ Cardinality(EventsOf(w, Terminal)) = 1
                    /\ \A i \in EventsOf(w, Terminal) :
                          /\ ui_queue[i].type = "error"
                          /\ ui_queue[i].payload = ErrorMessage("ValueError")

\* C10 witness: a worker given an unknown mode has returned after the
\* invalid-mode error, without calling the library.
C10_Witness ==
    /\ Len(workers) = 1
    /\ workers[1].pc = "finished"
    /\ workers[1].exc = "ValueError"
    /\ ~workers[1].called
    /\ ui_queue # <<>>
    /\ ui_queue[Len(ui_queue)].type = "error"

(***************************************************************************)
(* Claims about the submitter and the worker together (Spec, LiveSpec).    *)
(***************************************************************************)
\* the busy flag: the submit control is disabled
Busy == state["download_button"] = "disabled"

InFlight == {w \in JobIds : ~Ended(w)}

\* C2: at most one worker is in flight; a worker is in flight only while the
\* submit control is disabled (start_download disables it before it spawns
\* the worker), the control is enabled only when poll_queue has dequeued the
\* terminal event of every job started, and while it is disabled exactly the
\* last job started has its terminal event not yet dequeued.
C2_OneJobInFlight ==
    /\ Cardinality(InFlight) <= 1
    /\ InFlight # {} => Busy
    /\ ~Busy => Len(handled) = Len(workers)
    /\ Busy => Len(handled) = Len(workers) - 1
    /\ \A i \in DOMAIN handled : handled[i][1] = i

\* C2 witness: a second job's worker is in flight, the first job being over.
C2_Witness ==
    /\ Len(workers) = 2
    /\ workers[1].pc = "finished"
    /\ workers[2].pc = "running"
    /\ Busy

\* C3: whenever the controls are enabled (poll_queue re-enabled them, or no
\* job was started yet) the channel is empty, and every event on the channel
\* was put by the last job started, so that the polling of job N+1 never
\* dequeues an event of job N.
C3_ChannelDrained ==
    /\ ~Busy => ui_queue = <<>>
    /\ \A i \in DOMAIN ui_queue : ui_queue[i].job = Len(workers)

\* C3 witness: poll_queue has re-enabled the controls after the second job,
\* whose worker put events before its terminal event.
C3_Witness ==
    /\ Len(workers) = 2
    /\ Len(handled) = 2
    /\ workers[2].called
    /\ ~Busy
    /\ ui_queue = <<>>
    /\ status_label = <<"Done.">>
    /\ progress_bar = Frac(1, 1)

\* C4: under fair scheduling of the UI timer and loop, every worker that has
\* returned leads to poll_queue having dequeued its job's terminal event,
\* which clears the busy flag in that step; the event dequeued for a job
\* whose worker raised is error, for the others done, one per job.
C4_TerminalEventProcessed ==
    /\ \A w \in 1..MaxJobs :
          (Len(workers) >= w /\ workers[w].pc = "finished") ~> (Len(handled) >= w)
    /\ [][handled' # handled => Busy /\ ~Busy']_vars
    /\ [](\A i \in DOMAIN handled :
            /\ handled[i][1] = i
            /\ handled[i][2] = IF workers[i].exc # None THEN "error" ELSE "done")

\* C4 witness: the library raised in the first job and poll_queue has
\* dequeued the job's error event and re-enabled the controls.
C4_Witness ==
    /\ Len(workers) = 1
    /\ workers[1].exc = "DownloadError"
    /\ handled = <<<<1, "error">>>>
    /\ ~Busy
    /\ status_label = <<"Error.">>

\* the text has nothing but white space in it
IsBlank(s) == \A i \in DOMAIN s : s[i] \in Whitespace

ValidationDialog == <<"showerror", "Error", <<"Please enter a YouTube video link.">>>>

\* C6: a start_download step taken with an empty (or all-blank) link entry
\* spawns no worker, schedules no timer and leaves every widget's state,
\* the busy flag with them, as it was.
C6_EmptyUrlStartsNothing ==
    [][start_download /\ IsBlank(link_entry)
          => UNCHANGED <<workers, timers, state, ui_queue>>]_vars

\* C6 witness: start_download has run on a blank link entry and put up its
\* validation dialog; no worker exists and no timer is pending.
C6_Witness ==
    /\ dialog = ValidationDialog
    /\ IsBlank(link_entry)
    /\ workers = <<>>
    /\ timers = 0
    /\ ~Busy

\* a step of a worker thread: a worker's record changes
WorkerStep == Len(workers') = Len(workers) /\ workers' # workers

\* C7: a worker step changes nothing but the channel, the filesystem and the
\* worker's own record; the busy flag, the status text and the progress
\* value change only in start_download and poll_queue steps.
C7_WorkerLeavesUIAlone ==
    [][/\ WorkerStep =>
            UNCHANGED <<link_entry, folder_entry, mode_var, mp3_quality_var,
                        mp4_quality_var, state, mp3_label, mp4_label, status_label,
                        progress_bar, timers, uiPc, dialog>>
       /\ (Busy' # Busy \/ status_label' # status_label \/ progress_bar' # progress_bar)
            => (start_download \/ poll_queue \/ PollLoop)]_vars

\* C7 witness: the worker has run to its end and put its events while the UI
\* still shows what start_download set.
C7_Witness ==
    /\ Len(workers) = 1
    /\ workers[1].pc = "finished"
    /\ Len(ui_queue) >= 3
    /\ status_label = <<"Starting...">>
    /\ progress_bar = Frac(0, 1)
    /\ Busy

\* C8: the value on the progress indicator is always within 0 and 1 (0 to
\* 100 percent), whatever percentage the progress events carried.
C8_ProgressClamped ==
    /\ FracLe(Frac(0, 1), progress_bar)
    /\ FracLe(progress_bar, Frac(1, 1))

\* C8 witness: poll_queue has just rendered a progress event of 150 percent
\* (the status event of the same callback is next on the channel) as 1.
C8_Witness ==
    /\ uiPc = "poll"
    /\ progress_bar = Frac(1, 1)
    /\ ui_queue # <<>>
    /\ Head(ui_queue).type = "status"
    /\ Head(ui_queue).payload = <<"Downloading... ", "150.0", "%">>

(***************************************************************************)
(* Claims about the options download_worker hands to the library           *)
(* (WorkerSpec).  A format expression is read as the library reads it:     *)
(* "/" separates the alternatives, tried left to right, "+" joins the      *)
(* video and the audio selector of one alternative, "[...]" filters the    *)
(* selector it follows.                                                    *)
(***************************************************************************)
\* the worker holds the ydl_opts that the job.mode branch has completed
OptsBuilt(w) == workers[w].pc \in {"running", "hook2", "done"}

RECURSIVE Split(_, _)
\* the pieces of token sequence s between the tokens sep
Split(s, sep) ==
    IF \A i \in DOMAIN s : s[i] # sep
    THEN <<s>>
    ELSE LET i == CHOOSE k \in DOMAIN s : s[k] = sep /\ \A m \in 1..(k - 1) : s[m] # sep
         IN  <<SubSeq(s, 1, i - 1)>> \o Split(SubSeq(s, i + 1, Len(s)), sep)

Alternatives(fmt) == Split(fmt, "/")

\* the selector (with its filters) that picks the video of an alternative
VideoSelector(alt) == Split(alt, "+")[1]

\* the selector carries the filter [height<=h]
HeightAtMost(sel, h) ==
    \E i \in 1..(Len(sel) - 2) :
        sel[i] = "[height<=" /\ sel[i + 1] = h /\ sel[i + 2] = "]"

HasHeightFilter(toks) == \E i \in DOMAIN toks : toks[i] = "[height<="

\* C11: whenever download_worker has built the options of a video Job, the
\* first alternative of their format expression limits the video height to
\* the Job's height H when the quality is a number H, and no alternative
\* carries a height filter when the quality is "best".
C11_HeightConstraint ==
    \A w \in JobIds :
        (OptsBuilt(w) /\ workers[w].job.mode = "video") =>
            LET fmt == workers[w].ydl_opts.format
                H   == workers[w].job.mp4_height
                alts == Alternatives(fmt)
            IN  IF H = "best"
                THEN \A i \in DOMAIN alts : ~HasHeightFilter(alts[i])
                ELSE HeightAtMost(VideoSelector(alts[1]), H)

C11_Witness ==
    \E w \in JobIds :
        /\ OptsBuilt(w)
        /\ workers[w].job.mode = "video"
        /\ workers[w].job.mp4_height = "720"
        /\ HeightAtMost(VideoSelector(Alternatives(workers[w].ydl_opts.format)[1]), "720")

\* a selector or alternative with its height filters taken out
RECURSIVE DropHeight(_)
DropHeight(toks) ==
    IF toks = <<>> THEN <<>>
    ELSE IF Len(toks) >= 3 /\ toks[1] = "[height<=" /\ toks[3] = "]"
    THEN DropHeight(SubSeq(toks, 4, Len(toks)))
    ELSE <<toks[1]>> \o DropHeight(Tail(toks))

\* the filters [ext=...] of an alternative, in order
ContainerFilters(alt) == SelectSeq(alt, LAMBDA t : t \in {"[ext=mp4]", "[ext=m4a]"})

BestChain == Alternatives(VideoFormat("best"))

\* the chain of a numeric quality as the statement has it: the alternatives
\* of "best" with the height limit added, and either nothing more or one
\* unconstrained alternative at the end
SameChainAsBest(alts) ==
    LET plain == [i \in DOMAIN alts |-> DropHeight(alts[i])]
    IN  \/ plain = BestChain
        \/ /\ Len(alts) = Len(BestChain) + 1
           /\ SubSeq(plain, 1, Len(BestChain)) = BestChain
           /\ alts[Len(alts)] = <<"best">>

\* C12 as stated: the format expression of a numeric quality is the chain
\* of "best" (same number and order of alternatives, same container
\* restrictions) but for the height limit and a final unconstrained
\* alternative.
C12_SameChain_AsStated ==
    \A w \in JobIds :
        (OptsBuilt(w) /\ workers[w].job.mode = "video"
                      /\ workers[w].job.mp4_height # "best") =>
            SameChainAsBest(Alternatives(workers[w].ydl_opts.format))

\* C12: the format expression of a numeric quality H has four alternatives
\* where that of "best" has three.  Both start with the MP4 video + M4A
\* audio pair (the video limited to H for a number) and both end with
\* unconstrained "best"; in between, the chain of H has
\* bestvideo[height<=H]+bestaudio and best[height<=H], neither with a
\* container restriction, where the chain of "best" has best[ext=mp4].
C12_ChainOfHeight ==
    \A w \in JobIds :
        (OptsBuilt(w) /\ workers[w].job.mode = "video"
                      /\ workers[w].job.mp4_height # "best") =>
            LET alts == Alternatives(workers[w].ydl_opts.format)
                H    == workers[w].job.mp4_height
            IN  /\ Len(alts) = 4 /\ Len(BestChain) = 3
                /\ DropHeight(alts[1]) = BestChain[1]
                /\ HeightAtMost(VideoSelector(alts[1]), H)
                /\ ContainerFilters(alts[1]) = <<"[ext=mp4]", "[ext=m4a]">>
                /\ alts[2] = <<"bestvideo", "[height<=", H, "]", "+", "bestaudio">>
                /\ alts[3] = <<"best", "[height<=", H, "]">>
                /\ ContainerFilters(alts[2]) = <<>> /\ ContainerFilters(alts[3]) = <<>>
                /\ BestChain[2] = <<"best", "[ext=mp4]">>
                /\ alts[4] = <<"best">> /\ BestChain[3] = <<"best">>

C12_Witness ==
    \E w \in JobIds :
        /\ OptsBuilt(w)
        /\ workers[w].job.mode = "video"
        /\ workers[w].job.mp4_height = "1440"
        /\ Len(Alternatives(workers[w].ydl_opts.format)) = 4
        /\ ~SameChainAsBest(Alternatives(workers[w].ydl_opts.format))

\* C13: whenever download_worker has built the options of an audio Job, of
\* any bitrate, their format asks for the best audio first, their
\* post-processing extracts audio to MP3 with preferredquality equal to the
\* Job's bitrate, and nothing in them forces an MP4 container.
C13_AudioOptions ==
    \A w \in JobIds :
        (OptsBuilt(w) /\ workers[w].job.mode = "audio") =>
            LET opts == workers[w].ydl_opts
                pps  == opts.postprocessors
            IN  /\ Alternatives(opts.format)[1] = <<"bestaudio">>
                /\ \E i \in DOMAIN pps :
                      /\ pps[i].key = "FFmpegExtractAudio"
                      /\ pps[i].preferredcodec = "mp3"
                      /\ pps[i].preferredquality = workers[w].job.mp3_kbps
                /\ "merge_output_format" \notin DOMAIN opts
                /\ \A i \in DOMAIN pps : pps[i].key # "FFmpegVideoConvertor"

C13_Witness ==
    \E w \in JobIds :
        /\ OptsBuilt(w)
        /\ workers[w].job.mode = "audio"
        /\ workers[w].job.mp3_kbps = "320"
        /\ workers[w].ydl_opts.postprocessors[1].preferredquality = "320"

(***************************************************************************)
(* The done event (WorkerSpec).                                            *)
(***************************************************************************)
\* text ends with the tokens of part
EndsWith(text, part) ==
    /\ Len(text) >= Len(part)
    /\ SubSeq(text, Len(text) - Len(part) + 1, Len(text)) = part

\* C14: a done event of a worker is put in one step only: the step that
\* follows the successful return of the library call, taken when no done
\* event of that worker exists and no exception has been raised; that step
\* always puts it, as the last event, with a message that ends with the
\* Job's output directory.  So a worker puts done at most once, and never
\* on a path on which something failed.
C14_DoneAfterSuccess ==
    [][\A w \in JobIds :
          LET before == EventsOf(w, {"done"})
              after  == EventsOf(w, {"done"})'
          IN  /\ after # before =>
                    /\ workers[w].pc = "done"
                    /\ workers[w].called
                    /\ workers[w].exc = None
                    /\ before = {}
              /\ workers[w].pc = "done" =>
                    /\ workers[w].called
                    /\ workers[w].exc = None
                    /\ workers'[w].pc # "done" =>
                          /\ after = {Len(ui_queue')}
                          /\ Len(ui_queue') = Len(ui_queue) + 1
                          /\ EndsWith(ui_queue'[Len(ui_queue')].payload,
                                      workers[w].job.out_dir)
              /\ workers'[w].exc # None => after = {}
      ]_vars

C14_Witness ==
    \E w \in JobIds :
        /\ workers[w].pc = "finished"
        /\ workers[w].called
        /\ Cardinality(EventsOf(w, {"done"})) = 1
        /\ \E i \in EventsOf(w, {"done"}) :
              /\ i = Len(ui_queue)
              /\ EndsWith(ui_queue[i].payload, path_join(BASE_DIR, <<"downloads">>))
        /\ \E i \in EventsOf(w, {"status"}) : i < Len(ui_queue)

(***************************************************************************)
(* Claims about the UI thread and the worker threads together (Spec).      *)
(***************************************************************************)
\* C15: a tick of poll_queue never waits for the channel.  A pending timer
\* can always fire and the loop it starts can always go round, whether or
\* not the channel holds an event; on an empty channel the tick ends at
\* once, takes nothing, and leaves one timer pending for the next tick.  So
\* while a worker runs the UI thread always has a polling step it can take.
C15_PollNeverBlocks ==
    /\ (uiPc = "idle" /\ timers > 0) => ENABLED poll_queue
    /\ uiPc = "poll" => ENABLED PollLoop
    /\ (ui_queue = <<>> /\ uiPc = "idle" /\ timers > 0) =>
          ENABLED (poll_queue /\ ui_queue' = <<>> /\ uiPc' = "idle" /\ timers' = timers)
    /\ (ui_queue = <<>> /\ uiPc = "poll") =>
          ENABLED (PollLoop /\ ui_queue' = <<>> /\ uiPc' = "idle" /\ timers' = timers + 1)
    /\ (\E w \in JobIds : ~Ended(w)) => ENABLED (poll_queue \/ PollLoop)

C15_Witness ==
    /\ uiPc = "poll"
    /\ ui_queue = <<>>
    /\ timers = 0
    /\ \E w \in JobIds : workers[w].pc = "running" /\ workers[w].hooks > 0

\* t is what is left of s once the blanks at its two ends are taken off
IsTrimOf(t, s) ==
    /\ t # <<>>
    /\ t[1] \notin Whitespace
    /\ t[Len(t)] \notin Whitespace
    /\ \E a \in 0..Len(s) :
          /\ a + Len(t) <= Len(s)
          /\ SubSeq(s, a + 1, a + Len(t)) = t
          /\ IsBlank(SubSeq(s, 1, a))
          /\ IsBlank(SubSeq(s, a + Len(t) + 1, Len(s)))

\* C16: a step that spawns a worker is taken with a link entry that is not
\* blank, and gives the new Job the output directory "downloads" under the
\* base directory when the folder entry is empty or blank, and the folder
\* entry's text without the blanks at its ends otherwise.  The worker's
\* first step leaves that directory existing whenever it goes on; it always
\* goes on, changing nothing, when the directory existed already, and it
\* fails only when the directory did not exist and could not be made.
C16_OutputDirectory ==
    [][/\ Len(workers') > Len(workers) =>
              LET out == workers'[Len(workers')].job.out_dir
              IN  /\ ~IsBlank(link_entry)
                  /\ IF IsBlank(folder_entry)
                     THEN out = BASE_DIR \o <<"/", "downloads">>
                     ELSE IsTrimOf(out, folder_entry)
       /\ \A w \in JobIds :
              (workers[w].pc = "mkdir" /\ workers'[w].pc # "mkdir") =>
                  LET path == workers[w].job.out_dir
                  IN  /\ workers'[w].pc = "config" => path \in fsDirs'
                      /\ path \in fsDirs =>
                            workers'[w].pc = "config" /\ fsDirs' = fsDirs
                      /\ workers'[w].pc # "config" =>
                            /\ workers'[w].exc = "OSError"
                            /\ path \notin fsDirs'
      ]_vars

C16_Witness ==
    /\ Len(workers) = 2
    /\ handled = <<<<1, "done">>>>
    /\ fsDirs = {<<"d">>}
    /\ folder_entry = <<"d", " ">>
    /\ workers[2].pc = "config"
    /\ workers[2].job.out_dir = <<"d">>

\* the quality menu that belongs to a mode, and the other one
MenuOf(mode) == IF mode = "audio" THEN "mp3_menu" ELSE "mp4_menu"
OtherMenu(mode) == IF mode = "audio" THEN "mp4_menu" ELSE "mp3_menu"

\* C17 as stated: whenever the UI is idle (no job in flight), the quality
\* menu of the selected mode is enabled and the other quality menu is
\* disabled.
C17_MenuFollowsMode_AsStated ==
    ~Busy =>
        /\ state[MenuOf(mode_var)] = "normal"
        /\ state[OtherMenu(mode_var)] = "disabled"

\* poll_queue timers pending, plus the poll_queue call that is executing
Pollers == timers + (IF uiPc = "poll" THEN 1 ELSE 0)

\* C18: at most one poll_queue timer is pending; while the controls are
\* disabled for a job exactly one poll is pending or executing; and while
\* they are enabled (before the first start_download, and from the handling
\* of a terminal event to the next start_download) none is.
C18_OnePoll ==
    /\ timers <= 1
    /\ Busy => Pollers = 1
    /\ ~Busy => Pollers = 0

C18_Witness ==
    /\ Busy
    /\ Len(workers) = 2
    /\ Len(handled) = 1
    /\ uiPc = "poll"
    /\ timers = 0

\* the status text that belongs to the terminal event handled last
TerminalStatus ==
    IF handled[Len(handled)][2] = "done" THEN <<"Done.">> ELSE <<"Error.">>

\* jobs whose terminal event poll_queue has handled
FinishedJobs == {handled[i][1] : i \in DOMAIN handled}

\* C19: the step in which poll_queue handles a terminal event sets the
\* status to "Done." for done and "Error." for error and enables the
\* controls; from then on, as long as the controls stay enabled (that is,
\* until the next start_download that spawns a job), every step leaves the
\* status at that text and the progress bar as it is; and no event that
\* poll_queue ever takes from the channel belongs to a job whose terminal
\* event has been handled.
C19_TerminalStatusStays ==
    [][/\ Len(handled') > Len(handled) =>
              ~Busy' /\ status_label' = TerminalStatus'
       /\ (~Busy' /\ handled' # <<>>) => status_label' = TerminalStatus'
       /\ (~Busy /\ ~Busy' /\ handled # <<>>) =>
              /\ status_label' = status_label
              /\ progress_bar' = progress_bar
       /\ (ui_queue # <<>> /\ ui_queue' = Tail(ui_queue)) =>
              Head(ui_queue).job \notin FinishedJobs
      ]_vars

C19_Witness ==
    /\ ~Busy
    /\ handled = <<<<1, "done">>>>
    /\ status_label = <<"Done.">>
    /\ progress_bar = Frac(1, 1)
    /\ dialog = Absent
    /\ mode_var = "video"

(***************************************************************************)
(* The progress callback (WorkerSpec).                                     *)
(***************************************************************************)
\* the types of a sequence of <<type, payload>> pairs, in order
Kinds(evs) == [i \in DOMAIN evs |-> evs[i][1]]

\* neither total_bytes nor total_bytes_estimate gives a total above zero
NoTotal(d) ==
    \A t \in {d.total_bytes, d.total_bytes_estimate} : t = Absent \/ t[1] <= 0

\* the events that are on the channel after the step and were not before
Added == SubSeq(ui_queue', Len(ui_queue) + 1, Len(ui_queue'))

\* C20: for every dictionary the library may pass, one call of
\* progress_hook puts nothing, one status event, or one progress event
\* followed by one status event: nothing when the dictionary's status is
\* neither "downloading" nor "finished", a status event only when it is
\* "downloading" with no total above zero.  Each callback a worker receives
\* puts just that: the step that receives it puts at most one event, and a
\* second put follows exactly when the first was a progress event, and it
\* puts the status event.
C20_HookEvents ==
    [][\A w \in JobIds :
          /\ workers'[w].hooks = workers[w].hooks + 1 =>
                /\ \A d \in HookDicts :
                      LET k == Kinds(HookEvents(d)) IN
                      /\ k \in {<<>>, <<"status">>, <<"progress", "status">>}
                      /\ d.status \notin {"downloading", "finished"} => k = <<>>
                      /\ (d.status = "downloading" /\ NoTotal(d)) => k = <<"status">>
                /\ Len(Added) <= 1
                /\ \A i \in DOMAIN Added :
                      Added[i].job = w /\ Added[i].type \in {"status", "progress"}
                /\ workers'[w].pc = "hook2" <=>
                      (Len(Added) = 1 /\ Added[1].type = "progress")
                /\ workers'[w].pc = "hook2" => workers'[w].pend[1] = "status"
          /\ workers[w].pc = "hook2" =>
                /\ Len(Added) = 1
                /\ Added[1].job = w /\ Added[1].type = "status"
                /\ workers'[w].pc = "running"
                /\ workers'[w].hooks = workers[w].hooks
      ]_vars

C20_Witness ==
    \E w \in JobIds :
        /\ workers[w].pc = "hook2"
        /\ workers[w].hooks = 1
        /\ ui_queue # <<>>
        /\ ui_queue[Len(ui_queue)].type = "progress"
        /\ ui_queue[Len(ui_queue)].payload = Frac(150, 1)
        /\ workers[w].pend[1] = "status"

=============================================================================
